---- MODULE Spec2Model ----
\* The sliding-window z-score anomaly detector of Anomaly_Detection.py, its
\* stream source and its presentation loop, as a state machine.  Arithmetic is
\* the program's: Python floats (IEEE 754 binary64, round to nearest even) and
\* numpy's mean and std over the window.
EXTENDS Integers, Sequences, FiniteSets

\* ---------------------------------------------------------------------------
\* Natural numbers of arbitrary size, as little-endian tuples of limbs in
\* 0..Base-1 without leading zero limbs (<<>> is 0).  They carry the 53-bit
\* significands of Python floats (IEEE 754 binary64) and the exact
\* intermediate results that are then rounded to nearest-even.
\* ---------------------------------------------------------------------------
Base == 32768
LimbBits == 15

Limb(a, i) == IF i <= Len(a) THEN a[i] ELSE 0

RECURSIVE Norm(_)
Norm(a) ==
    IF a = <<>> THEN <<>>
    ELSE IF a[Len(a)] = 0 THEN Norm(SubSeq(a, 1, Len(a) - 1)) ELSE a

RECURSIVE NatOf(_)
NatOf(k) == IF k = 0 THEN <<>> ELSE <<k % Base>> \o NatOf(k \div Base)

RECURSIVE AddC(_, _, _, _)
AddC(a, b, i, c) ==
    IF i > Len(a) /\ i > Len(b)
    THEN (IF c = 0 THEN <<>> ELSE <<c>>)
    ELSE LET s == Limb(a, i) + Limb(b, i) + c
         IN  <<s % Base>> \o AddC(a, b, i + 1, s \div Base)

AddN(a, b) == AddC(a, b, 1, 0)

RECURSIVE SubC(_, _, _, _)
SubC(a, b, i, c) ==
    IF i > Len(a) THEN <<>>
    ELSE LET s == a[i] - Limb(b, i) - c
         IN  IF s < 0 THEN <<s + Base>> \o SubC(a, b, i + 1, 1)
                      ELSE <<s>> \o SubC(a, b, i + 1, 0)

\* a - b for a >= b
SubN(a, b) == Norm(SubC(a, b, 1, 0))

RECURSIVE CmpAt(_, _, _)
CmpAt(a, b, i) ==
    IF i = 0 THEN 0
    ELSE IF a[i] < b[i] THEN -1
    ELSE IF a[i] > b[i] THEN 1
    ELSE CmpAt(a, b, i - 1)

\* -1, 0, 1 as a < b, a = b, a > b
CmpN(a, b) ==
    IF Len(a) < Len(b) THEN -1
    ELSE IF Len(a) > Len(b) THEN 1
    ELSE CmpAt(a, b, Len(a))

RECURSIVE MulSmallC(_, _, _, _)
MulSmallC(a, k, i, c) ==
    IF i > Len(a) THEN (IF c = 0 THEN <<>> ELSE <<c>>)
    ELSE LET s == a[i] * k + c
         IN  <<s % Base>> \o MulSmallC(a, k, i + 1, s \div Base)

\* a * k for 0 <= k < Base
MulSmall(a, k) == IF k = 0 THEN <<>> ELSE MulSmallC(a, k, 1, 0)

ShlLimbs(a, n) == IF a = <<>> THEN <<>> ELSE [i \in 1..n |-> 0] \o a

RECURSIVE MulAt(_, _, _)
MulAt(a, b, j) ==
    IF j > Len(b) THEN <<>>
    ELSE AddN(ShlLimbs(MulSmall(a, b[j]), j - 1), MulAt(a, b, j + 1))

MulN(a, b) == MulAt(a, b, 1)

\* a * 2^n
Shl(a, n) == ShlLimbs(MulSmall(a, 2 ^ (n % LimbBits)), n \div LimbBits)

RECURSIVE ShrBitsAt(_, _, _)
ShrBitsAt(a, r, i) ==
    IF i > Len(a) THEN <<>>
    ELSE <<(a[i] \div (2 ^ r)) + (Limb(a, i + 1) % (2 ^ r)) * (2 ^ (LimbBits - r))>>
         \o ShrBitsAt(a, r, i + 1)

\* floor(a / 2^n)
Shr(a, n) ==
    LET d == n \div LimbBits
        t == IF d >= Len(a) THEN <<>> ELSE SubSeq(a, d + 1, Len(a))
    IN  Norm(ShrBitsAt(t, n % LimbBits, 1))

RECURSIVE IntBits(_)
IntBits(k) == IF k = 0 THEN 0 ELSE 1 + IntBits(k \div 2)

\* number of significant bits of a
BitLen(a) == IF a = <<>> THEN 0 ELSE (Len(a) - 1) * LimbBits + IntBits(a[Len(a)])

\* bit n of a (bit 0 is the least significant)
BitN(a, n) == (Limb(a, (n \div LimbBits) + 1) \div (2 ^ (n % LimbBits))) % 2

\* some bit below bit n of a is set
LowBitsSet(a, n) == CmpN(Shl(Shr(a, n), n), a) # 0

IsOdd(a) == a # <<>> /\ a[1] % 2 = 1

\* ---------------------------------------------------------------------------
\* Python floats: sign, 53-bit significand man (2^52 <= man < 2^53, or 0) and
\* exponent, of value man * 2^exp.  Every operation computes the exact result
\* and rounds it to nearest, ties to even, as the hardware does.  The values
\* of the model stay far from the overflow and subnormal ranges.
\* ---------------------------------------------------------------------------
Precision == 53

FZero == [neg |-> FALSE, man |-> <<>>, exp |-> 0]

IsZero(x) == x.man = <<>>

\* a significand q of at most Precision + 1 bits, brought back to Precision
Renorm(neg, q, e) ==
    IF BitLen(q) > Precision
    THEN [neg |-> neg, man |-> Shr(q, 1), exp |-> e + 1]
    ELSE [neg |-> neg, man |-> q, exp |-> e]

\* m without its k low bits, rounded to nearest, ties to even
RoundAt(neg, m, e, sticky, k) ==
    Renorm(neg,
           IF BitN(m, k - 1) = 1 /\ (sticky \/ LowBitsSet(m, k - 1) \/ IsOdd(Shr(m, k)))
           THEN AddN(Shr(m, k), <<1>>)
           ELSE Shr(m, k),
           e + k)

\* m of l significant bits
RoundLen(neg, m, e, sticky, l) ==
    IF l <= Precision
    THEN [neg |-> neg, man |-> Shl(m, Precision - l), exp |-> e - (Precision - l)]
    ELSE RoundAt(neg, m, e, sticky, l - Precision)

\* the float nearest to (m + f) * 2^e, where 0 < f < 1 if sticky and f = 0
\* otherwise; a sticky m has more than Precision + 1 bits
RoundF(neg, m, e, sticky) ==
    IF m = <<>> THEN FZero ELSE RoundLen(neg, m, e, sticky, BitLen(m))

\* float(k) for an int k
FromInt(k) == IF k < 0 THEN RoundF(TRUE, NatOf(-k), 0, FALSE)
                       ELSE RoundF(FALSE, NatOf(k), 0, FALSE)

FNeg(x) == IF IsZero(x) THEN x ELSE [x EXCEPT !.neg = ~x.neg]

FAbs(x) == [x EXCEPT !.neg = FALSE]

\* mx * 2^e + my * 2^e with the signs of x and y
AddAligned(x, y, mx, my, e) ==
    IF x.neg = y.neg THEN RoundF(x.neg, AddN(mx, my), e, FALSE)
    ELSE IF CmpN(mx, my) = 0 THEN FZero
    ELSE IF CmpN(mx, my) > 0 THEN RoundF(x.neg, SubN(mx, my), e, FALSE)
    ELSE RoundF(y.neg, SubN(my, mx), e, FALSE)

AddAt(x, y, e) == AddAligned(x, y, Shl(x.man, x.exp - e), Shl(y.man, y.exp - e), e)

\* x + y
FAdd(x, y) ==
    IF IsZero(x) THEN y
    ELSE IF IsZero(y) THEN x
    ELSE AddAt(x, y, IF x.exp < y.exp THEN x.exp ELSE y.exp)

\* x - y
FSub(x, y) == FAdd(x, FNeg(y))

\* x * y
FMul(x, y) ==
    IF IsZero(x) \/ IsZero(y) THEN FZero
    ELSE RoundF(x.neg # y.neg, MulN(x.man, y.man), x.exp + y.exp, FALSE)

\* long division, one quotient bit per step: from the quotient q so far and the
\* remainder r to floor((q * d + r) * 2^n / d) and the rest, n steps later
RECURSIVE DivRun(_, _, _, _)
DivRun(q, r, d, n) ==
    IF n = 0 THEN [quo |-> q, rem |-> r]
    ELSE IF Len(q) >= 0 /\ CmpN(AddN(r, r), d) >= 0
         THEN DivRun(AddN(AddN(q, q), <<1>>), SubN(AddN(r, r), d), d, n - 1)
         ELSE DivRun(AddN(q, q), AddN(r, r), d, n - 1)

RunLen == 8

\* the steps are taken in runs of RunLen, which bounds the depth of evaluation
RECURSIVE DivSteps(_, _, _)
DivSteps(c, d, n) ==
    IF n = 0 \/ Len(c.quo) < 0 THEN c
    ELSE IF n <= RunLen THEN DivRun(c.quo, c.rem, d, n)
    ELSE DivSteps(DivRun(c.quo, c.rem, d, RunLen), d, n - RunLen)

DivBits == 60

DivRound(neg, c, e) == RoundF(neg, c.quo, e, c.rem # <<>>)

\* x / y for y # 0
FDiv(x, y) ==
    IF IsZero(x) THEN FZero
    ELSE DivRound(x.neg # y.neg,
                  DivSteps(IF CmpN(x.man, y.man) >= 0
                           THEN [quo |-> <<1>>, rem |-> SubN(x.man, y.man)]
                           ELSE [quo |-> <<>>, rem |-> x.man],
                           y.man, DivBits),
                  x.exp - y.exp - DivBits)

\* square root digit by digit: bit runs over the powers of 4 from the highest
\* one not above the radicand down to 1 (n steps, then bit is 0)
RECURSIVE SqrtRun(_, _, _, _)
SqrtRun(rem, res, bit, n) ==
    IF n = 0 \/ bit = <<>> THEN [root |-> res, rem |-> rem, bit |-> bit]
    ELSE IF CmpN(rem, AddN(res, bit)) >= 0
         THEN SqrtRun(SubN(rem, AddN(res, bit)), AddN(Shr(res, 1), bit), Shr(bit, 2), n - 1)
         ELSE SqrtRun(rem, Shr(res, 1), Shr(bit, 2), n - 1)

RECURSIVE SqrtSteps(_)
SqrtSteps(c) ==
    IF c.bit = <<>> THEN c ELSE SqrtSteps(SqrtRun(c.rem, c.root, c.bit, RunLen))

SqrtBits == 56

SqrtRound(c, e) == RoundF(FALSE, c.root, e, c.rem # <<>>)

\* the square root of n * 2^(2 * e)
SqrtOf(n, e) ==
    SqrtRound(SqrtSteps([root |-> <<>>, rem |-> n,
                         bit |-> Shl(<<1>>, ((BitLen(n) - 1) \div 2) * 2)]), e)

\* the significand shifted by s bits, which makes the exponent even
SqrtShift(x, s) == SqrtOf(Shl(x.man, s), (x.exp - s) \div 2)

\* sqrt(x) for x >= 0
FSqrt(x) ==
    IF IsZero(x) THEN FZero
    ELSE SqrtShift(x, IF (x.exp - SqrtBits) % 2 = 0 THEN SqrtBits ELSE SqrtBits + 1)

\* x > y
FGt(x, y) ==
    IF IsZero(x) THEN (~IsZero(y) /\ y.neg)
    ELSE IF IsZero(y) THEN ~x.neg
    ELSE IF x.neg # y.neg THEN y.neg
    ELSE IF x.exp # y.exp THEN (x.exp > y.exp) # x.neg
    ELSE IF x.neg THEN CmpN(x.man, y.man) < 0 ELSE CmpN(x.man, y.man) > 0

\* ---------------------------------------------------------------------------
\* Bounds of the model and the inputs drawn from them
\* ---------------------------------------------------------------------------
MaxWindow == 3
MaxCalls == 3
MaxPoints == 2

\* stream values in hundredths: the generator rounds to 2 decimal places
ValueHundredths == {5, -500, -496}

\* threshold arguments in halves: -0.5, 0, 0.5, 1.0, 2.0
ThresholdHalves == {-1, 0, 1, 2, 4}

\* window_size arguments: ints, and a float (int |-> FALSE) of integral value n
WindowArgs == {[int |-> TRUE, n |-> k] : k \in -1..MaxWindow} \cup {[int |-> FALSE, n |-> 2]}

\* num_points arguments: ints, and a float
PointsArgs == {[int |-> TRUE, n |-> k] : k \in -1..MaxPoints} \cup {[int |-> FALSE, n |-> 2]}

\* round(value, 2): the float nearest to h / 100
Hundredth(h) == FDiv(FromInt(h), FromInt(100))

\* the float k / 2 (exact)
Half(k) == FDiv(FromInt(k), FromInt(2))

\* ---------------------------------------------------------------------------
\* numpy over a window of fewer than 8 floats: the sum runs left to right
\* ---------------------------------------------------------------------------
RECURSIVE np_sum(_, _)
np_sum(a, n) == IF n = 0 THEN FZero ELSE FAdd(np_sum(a, n - 1), a[n])

np_mean(a) == FDiv(np_sum(a, Len(a)), FromInt(Len(a)))

square(x) == FMul(x, x)

\* the sum of the squares of a[1..n] - arrmean
RECURSIVE sum_sq(_, _, _)
sum_sq(a, arrmean, n) ==
    IF n = 0 THEN FZero ELSE FAdd(sum_sq(a, arrmean, n - 1), square(FSub(a[n], arrmean)))

\* the variance about arrmean, ddof = 0
np_var(a, arrmean) == FDiv(sum_sq(a, arrmean, Len(a)), FromInt(Len(a)))

\* population standard deviation: sqrt(mean(abs(a - mean(a)) ** 2))
np_std(a) == FSqrt(np_var(a, np_mean(a)))

\* ---------------------------------------------------------------------------
\* ZScoreAnomalyDetector
\* ---------------------------------------------------------------------------
\* init_raises with the bounds of the comparisons moved
init_raises_strict(window_size, threshold) ==
    \/ ~window_size.int \/ window_size.n < 0
    \/ FGt(FZero, threshold)

\* the argument checks of __init__
init_raises(window_size, threshold) ==
    \/ ~window_size.int \/ window_size.n <= 0
    \/ ~FGt(threshold, FZero)

\* the object __init__ leaves behind
ZScoreAnomalyDetector(window_size, threshold) ==
    [window_size |-> window_size.n,
     threshold   |-> threshold,
     data_window |-> <<>>,
     mean        |-> FZero,
     std         |-> FZero]

\* deque_append without the eviction
deque_append_unbounded(w, maxlen, v) == Append(w, v)

\* deque(maxlen).append
deque_append(w, maxlen, v) ==
    IF Len(w) = maxlen THEN Append(Tail(w), v) ELSE Append(w, v)

update_statistics(self) ==
    IF Len(self.data_window) > 1
    THEN [self EXCEPT !.mean = np_mean(self.data_window),
                      !.std  = np_std(self.data_window)]
    ELSE self

\* exceeds with the comparison turned round
exceeds_reversed(zscore, threshold) == FGt(threshold, FAbs(zscore))

\* abs(zscore) > self.threshold
exceeds(zscore, threshold) == FGt(FAbs(zscore), threshold)

\* the test of detect once the window and the statistics are updated
judge(self, new_value) ==
    IF IsZero(self.std) THEN FALSE
    ELSE exceeds(FDiv(FSub(new_value, self.mean), self.std), self.threshold)

\* the rest of detect once the window is updated
detect_updated(self, new_value) ==
    [self |-> self, return |-> judge(self, new_value)]

\* detect: the detector after the call and the value returned
detect(self, new_value) ==
    detect_updated(
        update_statistics(
            [self EXCEPT !.data_window = deque_append(@, self.window_size, new_value)]),
        new_value)

\* ---------------------------------------------------------------------------
\* State
\* ---------------------------------------------------------------------------
VARIABLES
    detector,     \* <<>> while no detector exists, else <<the object>>
    args,         \* <<>> or <<the arguments of the constructor call>>
    raised,       \* "none" or the exception that ended the program
    calls,        \* history of detect calls: value passed, in hundredths, result
    detector2,    \* a second detector fed the same values (pair runs)
    calls2,       \* its history
    pc,           \* position in real_time_visualization
    num_points,   \* <<>> or <<its argument>>
    started,      \* the generator body has begun to run
    produced,     \* the values the generator has yielded, in order
    point,        \* <<>> or <<the value of the current iteration>>
    values,       \* the data series
    anomalies,    \* the anomaly series: <<v>> for a point, <<>> for None
    count,        \* anomalies detected
    log,          \* the console lines: index and value
    interactive,  \* plt.ion() is in effect
    figure,       \* plt.subplots() has made the figure
    updates,      \* what each redraw showed
    shown         \* plt.show() has been called

vars == <<detector, args, raised, calls, detector2, calls2, pc, num_points, started,
          produced, point, values, anomalies, count, log, interactive, figure,
          updates, shown>>

detVars == <<detector, args, calls>>
pairVars == <<detector2, calls2>>
runVars == <<pc, num_points, started, produced, point, values, anomalies, count, log,
             interactive, figure, updates, shown>>

Init ==
    /\ detector = <<>> /\ args = <<>> /\ raised = "none" /\ calls = <<>>
    /\ detector2 = <<>> /\ calls2 = <<>>
    /\ pc = "idle" /\ num_points = <<>> /\ started = FALSE /\ produced = <<>>
    /\ point = <<>> /\ values = <<>> /\ anomalies = <<>> /\ count = 0 /\ log = <<>>
    /\ interactive = FALSE /\ figure = FALSE /\ updates = <<>> /\ shown = FALSE

\* detector = ZScoreAnomalyDetector(window_size, threshold)
Create(window_size, k) ==
    /\ detector = <<>> /\ raised = "none" /\ args = <<>>
    /\ args' = <<[window_size |-> window_size, threshold |-> k]>>
    /\ \E threshold \in {Half(k)} :
           IF init_raises(window_size, threshold)
           THEN raised' = "ValueError" /\ detector' = detector
           ELSE raised' = raised /\ detector' = <<ZScoreAnomalyDetector(window_size, threshold)>>
    /\ UNCHANGED <<calls, pairVars, runVars>>

\* a detect call added to the history
Recorded(r, hist, v, h) ==
    [self |-> r.self,
     calls |-> Append(hist, [value |-> v, h |-> h, result |-> r.return]),
     return |-> r.return]

CallWith(d, hist, v, h) == Recorded(detect(d, v), hist, v, h)

\* one detect call with the value h / 100: the detector after it, the history
\* and the result
Call(d, hist, h) == CallWith(d, hist, Hundredth(h), h)

\* detector.detect(v), called directly
Detect(h) ==
    /\ detector # <<>> /\ pc = "idle" /\ Len(calls) < MaxCalls
    /\ \E c \in {Call(detector[1], calls, h)} :
           detector' = <<c.self>> /\ calls' = c.calls
    /\ UNCHANGED <<args, raised, pairVars, runVars>>

\* ---------------------------------------------------------------------------
\* Two detectors of one window size, fed the same values
\* ---------------------------------------------------------------------------
CreatePair(window_size, k1, k2) ==
    /\ detector = <<>> /\ detector2 = <<>> /\ raised = "none" /\ args = <<>>
    /\ k1 < k2
    /\ ~init_raises(window_size, Half(k1)) /\ ~init_raises(window_size, Half(k2))
    /\ args' = <<[window_size |-> window_size, threshold |-> k1]>>
    /\ detector' = <<ZScoreAnomalyDetector(window_size, Half(k1))>>
    /\ detector2' = <<ZScoreAnomalyDetector(window_size, Half(k2))>>
    /\ UNCHANGED <<raised, calls, calls2, runVars>>

DetectPair(h) ==
    /\ detector # <<>> /\ detector2 # <<>> /\ Len(calls) < MaxCalls
    /\ \E c \in {Call(detector[1], calls, h)} :
           detector' = <<c.self>> /\ calls' = c.calls
    /\ \E c \in {Call(detector2[1], calls2, h)} :
           detector2' = <<c.self>> /\ calls2' = c.calls
    /\ UNCHANGED <<args, raised, runVars>>

\* ---------------------------------------------------------------------------
\* data_stream_generator and real_time_visualization
\* ---------------------------------------------------------------------------
\* the argument check at the head of the generator's body
generator_raises(n) == ~n.int \/ n.n <= 0

\* has_next with one index too many
has_next_inclusive(i, n) == i <= n.n

\* range(num_points) has another index after i values
has_next(i, n) == i < n.n

\* anomaly_entry that records every point
anomaly_entry_always(p, is_anomaly) == <<p>>

\* the entry of the anomaly series: the point, or None
anomaly_entry(p, is_anomaly) == IF is_anomaly THEN <<p>> ELSE <<>>

\* real_time_visualization(detector, n) up to the first plotting call: the
\* generator object is made, its body has not begun to run
RunCall(n) ==
    /\ detector # <<>> /\ pc = "idle" /\ calls = <<>>
    /\ num_points' = <<n>> /\ started' = FALSE /\ produced' = <<>>
    /\ values' = <<>> /\ anomalies' = <<>> /\ count' = 0
    /\ pc' = "ion"
    /\ UNCHANGED <<detVars, raised, pairVars, point, log, interactive, figure, updates, shown>>

\* plt.ion(); fig, ax = plt.subplots()
PlotSetup ==
    /\ pc = "ion"
    /\ interactive' = TRUE /\ figure' = TRUE
    /\ pc' = "next"
    /\ UNCHANGED <<detVars, raised, pairVars, num_points, started, produced, point,
                   values, anomalies, count, log, updates, shown>>

\* the for statement asks the generator for its first value and the body's
\* argument check raises: the error leaves real_time_visualization
NextRaise ==
    /\ pc = "next" /\ ~started /\ generator_raises(num_points[1])
    /\ started' = TRUE /\ raised' = "ValueError" /\ pc' = "raised"
    /\ UNCHANGED <<detVars, pairVars, num_points, produced, point, values, anomalies,
                   count, log, interactive, figure, updates, shown>>

\* the generator yields round(value, 2)
NextYield(h) ==
    /\ pc = "next" /\ (started \/ ~generator_raises(num_points[1]))
    /\ has_next(Len(produced), num_points[1])
    /\ started' = TRUE
    /\ produced' = Append(produced, h)
    /\ point' = <<h>>
    /\ pc' = "detect"
    /\ UNCHANGED <<detVars, raised, pairVars, num_points, values, anomalies, count, log,
                   interactive, figure, updates, shown>>

\* the generator is exhausted: the loop ends
NextStop ==
    /\ pc = "next" /\ (started \/ ~generator_raises(num_points[1]))
    /\ ~has_next(Len(produced), num_points[1])
    /\ started' = TRUE
    /\ pc' = "ioff"
    /\ UNCHANGED <<detVars, raised, pairVars, num_points, produced, point, values,
                   anomalies, count, log, interactive, figure, updates, shown>>

\* is_anomaly = detector.detect(point); the series, the count and the log line
DetectPoint ==
    /\ pc = "detect"
    /\ \E v \in {Hundredth(point[1])} :
       \E c \in {CallWith(detector[1], calls, v, point[1])} :
           /\ detector' = <<c.self>> /\ calls' = c.calls
           /\ values' = Append(values, v)
           /\ anomalies' = Append(anomalies, anomaly_entry(v, c.return))
           /\ count' = IF c.return THEN count + 1 ELSE count
           /\ log' = IF c.return THEN Append(log, [x |-> Len(values), y |-> v]) ELSE log
    /\ pc' = "draw"
    /\ UNCHANGED <<args, raised, pairVars, num_points, started, produced, point,
                   interactive, figure, updates, shown>>

\* ax.clear() ... plt.pause(0.01): one redraw of both series and the title
Render ==
    /\ pc = "draw"
    /\ updates' = Append(updates, [values |-> values, anomalies |-> anomalies,
                                   detected |-> count, visualized |-> Len(produced)])
    /\ point' = <<>>
    /\ pc' = "next"
    /\ UNCHANGED <<detVars, raised, pairVars, num_points, started, produced, values,
                   anomalies, count, log, interactive, figure, shown>>

\* plt.ioff(); plt.show()
Finish ==
    /\ pc = "ioff"
    /\ interactive' = FALSE /\ shown' = TRUE
    /\ pc' = "done"
    /\ UNCHANGED <<detVars, raised, pairVars, num_points, started, produced, point,
                   values, anomalies, count, log, figure, updates>>

Next == (\E w \in WindowArgs, k \in ThresholdHalves : Create(w, k))
        \/ (\E h \in ValueHundredths : Detect(h))

Spec == Init /\ [][Next]_vars

PairNext == (\E w \in WindowArgs, k1 \in ThresholdHalves, k2 \in ThresholdHalves : CreatePair(w, k1, k2))
            \/ (\E h \in ValueHundredths : DetectPair(h))

PairSpec == Init /\ [][PairNext]_vars

RunSteps == PlotSetup \/ NextRaise \/ (\E h \in ValueHundredths : NextYield(h))
            \/ NextStop \/ DetectPoint \/ Render \/ Finish

RunNext == (\E w \in WindowArgs, k \in ThresholdHalves : Create(w, k))
           \/ (\E n \in PointsArgs : RunCall(n))
           \/ RunSteps

RunSpec == Init /\ [][RunNext]_vars

\* the steps of the run other than the detect call
PlotSteps == PlotSetup \/ NextRaise \/ (\E h \in ValueHundredths : NextYield(h))
             \/ NextStop \/ Render \/ Finish

\* the loop is sequential code: a step that can be taken is taken.  DetectPoint
\* is enabled exactly when pc = "detect" and is the only step that leaves it, so
\* its weak fairness is written on pc
FairRunSpec ==
    /\ RunSpec
    /\ WF_vars(PlotSteps)
    /\ [](pc = "detect" => <>(pc = "draw"))

\* ---------------------------------------------------------------------------
\* The properties
\* ---------------------------------------------------------------------------
Min(a, b) == IF a < b THEN a ELSE b

\* the values of the last n of the first k detect calls, oldest first
LastValues(k, n) == [i \in 1..n |-> calls[k - n + i].value]

\* the same in hundredths
LastHundredths(k, n) == [i \in 1..n |-> calls[k - n + i].h]

RECURSIVE SumH(_, _)
SumH(w, n) == IF n = 0 THEN 0 ELSE SumH(w, n - 1) + w[n]

RECURSIVE SumSqH(_, _)
SumSqH(w, n) == IF n = 0 THEN 0 ELSE SumSqH(w, n - 1) + w[n] * w[n]

\* N^2 times the population variance of the window w, in exact arithmetic
VarianceN2(w) == Len(w) * SumSqH(w, Len(w)) - SumH(w, Len(w)) * SumH(w, Len(w))

\* (v - mean)^2 > threshold^2 * variance for the threshold k / 2, over a window
\* of more than one element that is not uniform, in exact arithmetic
ExactAnomaly(w, v, k) ==
    /\ Len(w) > 1
    /\ VarianceN2(w) # 0
    /\ 4 * (Len(w) * v - SumH(w, Len(w))) * (Len(w) * v - SumH(w, Len(w)))
         > k * k * VarianceN2(w)

Uniform(w) == \A i \in 1..Len(w) : w[i] = w[1]

\* a num_points that is a positive integer
ValidCount == num_points # <<>> /\ num_points[1].int /\ num_points[1].n > 0

\* C1: after the k-th detect call the window holds the last min(k, windowSize)
\* values passed, oldest first; it is never longer than windowSize and the value
\* just passed is its last element.
C1_WindowBound ==
    detector # <<>> =>
        /\ detector[1].data_window
             = LastValues(Len(calls), Min(Len(calls), detector[1].window_size))
        /\ Len(detector[1].data_window) <= detector[1].window_size
        /\ (calls # <<>> =>
              detector[1].data_window[Len(detector[1].data_window)]
                = calls[Len(calls)].value)

\* a full window has evicted its oldest value
C1_Witness ==
    /\ detector # <<>> /\ detector[1].window_size = 2 /\ Len(calls) = 3
    /\ calls[1].h # calls[2].h /\ calls[2].h # calls[3].h
    /\ detector[1].data_window = <<calls[2].value, calls[3].value>>

\* C2: every detect call returns true if and only if the window after the
\* insertion has more than one element, its population standard deviation is
\* not zero and (v - mean)^2 > threshold^2 * population variance.
C2_DetectIffExact ==
    detector # <<>> =>
        \A i \in 1..Len(calls) :
            calls[i].result
              = ExactAnomaly(LastHundredths(i, Min(i, detector[1].window_size)),
                             calls[i].h, args[1].threshold)

\* C3, as stated: what the detector with the smaller threshold flags, the
\* detector with the larger threshold flags too.
C3_SmallerImpliesLarger ==
    (detector # <<>> /\ detector2 # <<>>) =>
        \A i \in 1..Len(calls) : calls[i].result => calls2[i].result

\* C3, amended: what the detector with the larger threshold flags, the detector
\* with the smaller threshold flags too, call by call on the same values.
C3_LargerImpliesSmaller ==
    (detector # <<>> /\ detector2 # <<>>) =>
        /\ Len(calls) = Len(calls2)
        /\ \A i \in 1..Len(calls) :
              /\ calls[i].value = calls2[i].value
              /\ calls2[i].result => calls[i].result

\* both detectors flag a value of a window of three
C3_Witness ==
    /\ detector # <<>> /\ detector2 # <<>>
    /\ FGt(detector2[1].threshold, detector[1].threshold)
    /\ Len(calls2) = 3 /\ calls2[3].result /\ calls[3].result

\* C4: a run whose count is not a positive integer has raised at the call of
\* the generator: no rendering context has been acquired, no value has been
\* produced and detect has not been called.
C4_EagerError ==
    (pc = "raised" /\ num_points # <<>> /\ ~ValidCount) =>
        /\ raised = "ValueError"
        /\ ~interactive /\ ~figure
        /\ produced = <<>> /\ calls = <<>>

\* C5: while all values of the window are equal, std is 0 and detect returns
\* false; the first call always returns false.
C5_UniformNeverFlagged ==
    (detector # <<>> /\ calls # <<>>) =>
        /\ ~calls[1].result
        /\ (Uniform(LastHundredths(Len(calls), Min(Len(calls), detector[1].window_size)))
              => IsZero(detector[1].std) /\ ~calls[Len(calls)].result)

\* C6: a run that has acquired the rendering context and has ended, by
\* exhaustion or by an error, has released it.
C6_ReleasedOnExit ==
    (pc \in {"done", "raised"} /\ figure) => ~interactive

\* C7: the data series and the anomaly series have one entry per detect call; an
\* entry of the anomaly series is the value where detect returned true and None
\* elsewhere; the count is the number of entries that are not None; after an
\* iteration the series are as long as the number of samples produced.
C7_SeriesAligned ==
    pc # "idle" =>
        /\ Len(values) = Len(calls) /\ Len(anomalies) = Len(calls)
        /\ (pc \in {"draw", "next", "ioff", "done"} => Len(values) = Len(produced))
        /\ \A j \in 1..Len(values) :
              /\ values[j] = calls[j].value
              /\ calls[j].h = produced[j]
              /\ anomalies[j] = IF calls[j].result THEN <<values[j]>> ELSE <<>>
        /\ count = Cardinality({j \in 1..Len(anomalies) : anomalies[j] # <<>>})

\* two iterations, the second value an anomaly
C7_Witness ==
    /\ pc = "next" /\ Len(values) = 2
    /\ anomalies[1] = <<>> /\ anomalies[2] = <<values[2]>> /\ count = 1

\* C8: with a positive integer count n the run ends; the generator yields n
\* values, detect is called once per value in the order produced, the sink is
\* updated once after each detect call, and once rendering is finalized there
\* is no further update or detect call.
C8_RunCompletes ==
    /\ [](ValidCount =>
            /\ raised = "none"
            /\ Len(produced) <= num_points[1].n
            /\ Len(calls) <= Len(produced) /\ Len(produced) <= Len(calls) + 1
            /\ Len(updates) <= Len(calls) /\ Len(calls) <= Len(updates) + 1
            /\ (pc = "draw" <=> Len(calls) = Len(updates) + 1)
            /\ \A j \in 1..Len(calls) : calls[j].h = produced[j]
            /\ \A j \in 1..Len(updates) : updates[j].visualized = j
            /\ (pc = "done" =>
                  /\ Len(produced) = num_points[1].n
                  /\ Len(calls) = num_points[1].n
                  /\ Len(updates) = num_points[1].n
                  /\ shown /\ ~interactive))
    /\ (ValidCount ~> pc = "done")
    /\ [][pc = "done" => pc' = "done" /\ updates' = updates /\ calls' = calls]_vars

\* a run of two samples has ended
C8_Witness ==
    /\ ValidCount /\ num_points[1].n = 2 /\ pc = "done"
    /\ Len(calls) = 2 /\ Len(updates) = 2

\* C9: the constructor fails exactly when window_size is not an integer, or is
\* not positive, or threshold is not positive; no detector exists then.  On
\* success the detector starts with an empty window, mean 0 and std 0, and its
\* window_size and threshold are those of the call after every detect call.
C9_Construction ==
    /\ (args = <<>> => detector = <<>> /\ raised = "none")
    /\ (args # <<>> =>
          IF ~args[1].window_size.int \/ args[1].window_size.n <= 0
                \/ args[1].threshold <= 0
          THEN raised = "ValueError" /\ detector = <<>> /\ calls = <<>>
          ELSE /\ raised = "none" /\ detector # <<>>
               /\ detector[1].window_size = args[1].window_size.n
               /\ detector[1].threshold = Half(args[1].threshold)
               /\ (calls = <<>> =>
                     /\ detector[1].data_window = <<>>
                     /\ IsZero(detector[1].mean) /\ IsZero(detector[1].std)))

\* the constructor has refused a threshold of 0 with a valid window size
C9_Witness ==
    /\ args # <<>> /\ args[1].window_size.int /\ args[1].window_size.n > 0
    /\ args[1].threshold = 0 /\ raised = "ValueError" /\ detector = <<>>

\* C10: a detector with threshold^2 >= windowSize - 1 never reports an anomaly.
C10_NeverAnomalous ==
    (detector # <<>>
       /\ args[1].threshold * args[1].threshold >= 4 * (detector[1].window_size - 1))
    => \A i \in 1..Len(calls) : ~calls[i].result
====
